---- MODULE Spec2Model ----
(***************************************************************************)
(* Berry pulse-oximeter client (src/src/berry_oximeter/oximeter.py): the  *)
(* streaming frame decoder that BerryOximeter owns as self._parser, and   *)
(* the consumer that fans its readings out to the sinks.                  *)
(*                                                                         *)
(* The decoder class BCIProtocolParser lives in berry_oximeter/parser.py, *)
(* which is imported by oximeter.py but is not among the sources; it is   *)
(* modelled from the design document (sections 3 and 4.1).                *)
(***************************************************************************)
EXTENDS Integers, Sequences, FiniteSets, TLC

\* ------------------------------------------------------------------ bounds
\* Total number of bytes fed to a decoder in the decoder specification.
MaxStream == 12

\* ----------------------------------------------------------- wire format
\* Frame length: 1 sync byte + 4 data bytes (design document, section 3).
FRAME_LEN == 5
\* Bit 7 of a byte is the synchronization marker.
SYNC_BIT == 128
\* Raw value of spo2 / pulse-rate that denotes "no value".
INVALID_SENTINEL == 127
\* Largest legal spo2 percentage and signal strength.
MAX_SPO2 == 100
MAX_SIGNAL == 8

\* The byte values the decoder specification draws chunks from: a byte with
\* the sync bit (0x81) and a continuation byte (0x08).  The synchronization
\* loop looks at nothing but the sync bit of each byte.
WireBytes == {129, 8}

\* Python's None for a reference (a client, a callback, a file, a name).
None == "None"
\* An absent optional integer field of a Reading (spo2, pulse_rate).
Absent == -1

SyncSet(b) == b >= SYNC_BIT

Bit(b, k) == (b \div (2 ^ k)) % 2

\* Status code bits of byte 2 -> status enum; an undefined code decodes to
\* "reading" (and forces signal_strength to 0, see Decode).
StatusDefined(code) == code \in 0..4

StatusOf(code) ==
    CASE code = 0 -> "reading"
      [] code = 1 -> "no_sensor"
      [] code = 2 -> "sensor_off"
      [] code = 3 -> "searching"
      [] code = 4 -> "low_perfusion"
      [] OTHER    -> "reading"

\* Variant: the raw bit fields are copied into the Reading without validation.
DecodeRaw(f) ==
    [ pulse_beep      |-> Bit(f[1], 6) = 1,
      pleth           |-> f[2],
      signal_strength |-> f[3] % 16,
      status          |-> StatusOf((f[3] \div 16) % 8),
      pulse_rate      |-> f[4],
      spo2            |-> f[5] ]

\* Field decode mapping of one validated frame f (a sequence of FRAME_LEN
\* bytes).  The timestamp field, assigned from the wall clock at decode time,
\* is not part of the decoded content and is left out.
Decode(f) ==
    LET code == (f[3] \div 16) % 8
        sig  == f[3] % 16
    IN [ pulse_beep      |-> Bit(f[1], 6) = 1,
         pleth           |-> f[2],
         signal_strength |-> IF StatusDefined(code) /\ sig <= MAX_SIGNAL
                             THEN sig ELSE 0,
         status          |-> StatusOf(code),
         pulse_rate      |-> IF f[4] = INVALID_SENTINEL THEN Absent ELSE f[4],
         spo2            |-> IF f[5] > MAX_SPO2 \/ f[5] = INVALID_SENTINEL
                             THEN Absent ELSE f[5] ]

\* A candidate frame starts at index i+1 of data: its first byte carries the
\* sync marker and none of its continuation bytes does.
ValidFrameAt(data, i) ==
    /\ i + FRAME_LEN <= Len(data)
    /\ SyncSet(data[i + 1])
    /\ \A k \in 2..FRAME_LEN : ~SyncSet(data[i + k])

\* What one run of the synchronization loop leaves: the residual buffer, the
\* Readings in emission order, and (for the record) the indices of data where
\* the decoded frames start and the indices discarded.
Result(data, i, out, starts, drops) ==
    [ buffer   |-> SubSeq(data, i + 1, Len(data)),
      readings |-> out,
      starts   |-> starts,
      drops    |-> drops ]

FrameAt(data, i) == SubSeq(data, i + 1, i + FRAME_LEN)

\* Variants of the synchronization loop with one step changed.
\* - waits for more than a frame length before looking at the front
RECURSIVE ExtractLate(_, _, _, _, _)
ExtractLate(data, i, out, starts, drops) ==
    IF Len(data) - i <= FRAME_LEN
    THEN Result(data, i, out, starts, drops)
    ELSE IF ~ValidFrameAt(data, i)
    THEN ExtractLate(data, i + 1, out, starts, drops \cup {i + 1})
    ELSE ExtractLate(data, i + FRAME_LEN, Append(out, Decode(FrameAt(data, i))),
                     Append(starts, i + 1), drops)

\* - discards a whole frame length when a continuation byte carries the marker
RECURSIVE ExtractBatchDiscard(_, _, _, _, _)
ExtractBatchDiscard(data, i, out, starts, drops) ==
    IF Len(data) - i < FRAME_LEN
    THEN Result(data, i, out, starts, drops)
    ELSE IF ~SyncSet(data[i + 1])
    THEN ExtractBatchDiscard(data, i + 1, out, starts, drops \cup {i + 1})
    ELSE IF ~ValidFrameAt(data, i)
    THEN ExtractBatchDiscard(data, i + FRAME_LEN, out, starts,
                             drops \cup ((i + 1)..(i + FRAME_LEN)))
    ELSE ExtractBatchDiscard(data, i + FRAME_LEN, Append(out, Decode(FrameAt(data, i))),
                             Append(starts, i + 1), drops)

\* - puts each new Reading in front of the result
RECURSIVE ExtractPrepend(_, _, _, _, _)
ExtractPrepend(data, i, out, starts, drops) ==
    IF Len(data) - i < FRAME_LEN
    THEN Result(data, i, out, starts, drops)
    ELSE IF ~ValidFrameAt(data, i)
    THEN ExtractPrepend(data, i + 1, out, starts, drops \cup {i + 1})
    ELSE ExtractPrepend(data, i + FRAME_LEN, <<Decode(FrameAt(data, i))>> \o out,
                        <<i + 1>> \o starts, drops)

\* - stops at a front byte without the marker instead of discarding it
RECURSIVE ExtractStopOnNoise(_, _, _, _, _)
ExtractStopOnNoise(data, i, out, starts, drops) ==
    IF Len(data) - i < FRAME_LEN \/ ~SyncSet(data[i + 1])
    THEN Result(data, i, out, starts, drops)
    ELSE IF ~ValidFrameAt(data, i)
    THEN ExtractStopOnNoise(data, i + 1, out, starts, drops \cup {i + 1})
    ELSE ExtractStopOnNoise(data, i + FRAME_LEN, Append(out, Decode(FrameAt(data, i))),
                            Append(starts, i + 1), drops)

\* The synchronization algorithm (design document 4.1, steps 1a, 1b, 1c, 2) on
\* data = buffer \o chunk, of which i bytes are already consumed.
RECURSIVE Extract(_, _, _, _, _)
Extract(data, i, out, starts, drops) ==
    IF Len(data) - i < FRAME_LEN
    THEN Result(data, i, out, starts, drops)
    ELSE IF ~SyncSet(data[i + 1])
    THEN Extract(data, i + 1, out, starts, drops \cup {i + 1})
    ELSE IF \E k \in 2..FRAME_LEN : SyncSet(data[i + k])
    THEN Extract(data, i + 1, out, starts, drops \cup {i + 1})
    ELSE Extract(data, i + FRAME_LEN, Append(out, Decode(FrameAt(data, i))),
                 Append(starts, i + 1), drops)

\* feed(chunk): append the chunk to the buffer, then extract.
AddData(buf, chunk) == Extract(buf \o chunk, 0, <<>>, <<>>, {})


\* ------------------------------------------------------- device bounds
\* Number of notification chunks the transport delivers in the device
\* specification.
MaxChunks == 2
\* Number of API calls the caller makes in the device specification.
MaxCalls == 4

\* Two frames of the scenario family: signal strength 8 with spo2 98, and
\* signal strength 2 with the spo2 sentinel.
FrameHi == <<129, 0, 8, 60, 98>>
FrameLo == <<129, 0, 2, 60, 127>>

\* Notification chunks of the device specification: a frame split 2 + 3, and
\* two frames in one chunk, the weaker one first.
DeviceChunks ==
    { SubSeq(FrameHi, 1, 2), SubSeq(FrameHi, 3, 5), FrameLo \o FrameHi }

\* set_filter arguments: None (modelled as -1), 0, and a threshold that the
\* stronger frame meets exactly and the weaker frame misses.
NoFilter == -1
FilterValues == {NoFilter, 0, 8}

Callbacks == {"cb1", "cb2"}
Filenames == {"log.csv"}

VARIABLES
    \* --- BCIProtocolParser (self._parser)
    buffer,              \* the decoder's byte accumulation buffer
    \* --- BerryOximeter fields
    client,              \* self._client: None or "client"
    link,                \* BleakClient.is_connected of the current link
    notifying,           \* start_notify is in force on the link
    device_address,      \* self._device_address
    streaming_callback,  \* self._streaming_callback
    latest_reading,      \* self._latest_reading: <<>> (None) or <<r>>
    collected_readings,  \* self._collected_readings
    is_collecting,       \* self._is_collecting
    csv_file,            \* self._csv_file: None or "open"
    csv_writer,          \* self._csv_writer: None or "writer"
    csv_filename,        \* self._csv_filename
    console_logging,     \* self._console_logging
    min_signal_strength, \* self._min_signal_strength
    \* --- control
    pc,                  \* the caller's thread: "idle", or suspended in a coroutine
    todo,                \* _handle_data: readings of the for loop not yet visited
    \* --- environment
    fileState,           \* the log file: rows on disk, rows in the write buffer
    consoleOut,          \* lines printed by _log_to_console
    cbLog,               \* calls made to streaming callbacks: <<callback, reading>>
    returned,            \* value returned by the latest get_readings call
    reading_result,      \* outcome of the latest get_reading call
    \* --- history
    stream,              \* every byte fed to the decoder since construction
    emitted,             \* every Reading the decoder returned since construction
    byteWise,            \* every feed call so far delivered exactly one byte
    discarded,           \* stream positions discarded during resynchronization
    frameStarts,         \* stream positions where the decoded frames start
    sessionStart,        \* Len(stream) when the current connection session began
    sessionEmitted,      \* Len(emitted) when the current connection session began
    accepted,            \* every Reading that passed the filter
    logExpected,         \* Readings accepted while logging, since start_logging
    windowAccepted,      \* Readings accepted inside the latest get_readings window
    registered,          \* callback of the latest start_streaming not yet stopped
    nChunks,             \* notification chunks delivered so far
    nCalls               \* API calls made so far

parserVars  == <<buffer, stream, emitted, byteWise, discarded, frameStarts>>
linkVars    == <<client, link, notifying, device_address, sessionStart, sessionEmitted>>
sinkVars    == <<latest_reading, collected_readings, fileState, consoleOut, cbLog,
                 accepted, logExpected, windowAccepted>>
csvVars     == <<csv_file, csv_writer, csv_filename>>
configVars  == <<streaming_callback, console_logging, min_signal_strength>>
callVars    == <<pc, is_collecting, returned, reading_result>>
vars == <<parserVars, linkVars, sinkVars, csvVars, configVars, callVars, todo,
         registered, nChunks, nCalls>>

\* BerryOximeter.__init__
Init ==
    /\ buffer = <<>>
    /\ client = None
    /\ link = FALSE
    /\ notifying = FALSE
    /\ device_address = None
    /\ streaming_callback = None
    /\ latest_reading = <<>>
    /\ collected_readings = <<>>
    /\ is_collecting = FALSE
    /\ csv_file = None
    /\ csv_writer = None
    /\ csv_filename = None
    /\ console_logging = FALSE
    /\ min_signal_strength = NoFilter
    /\ pc = "idle"
    /\ todo = <<>>
    /\ fileState = [disk |-> <<>>, pending |-> <<>>]
    /\ consoleOut = <<>>
    /\ cbLog = <<>>
    /\ returned = <<>>
    /\ reading_result = [kind |-> "none", value |-> <<>>]
    /\ stream = <<>>
    /\ emitted = <<>>
    /\ byteWise = TRUE
    /\ discarded = {}
    /\ frameStarts = <<>>
    /\ sessionStart = 0
    /\ sessionEmitted = 0
    /\ accepted = <<>>
    /\ logExpected = <<>>
    /\ windowAccepted = <<>>
    /\ registered = None
    /\ nChunks = 0
    /\ nCalls = 0

\* is_connected property
IsConnected == client # None /\ link

\* Variant: _handle_data could be suspended and other callbacks run meanwhile.
LoopAlwaysFree == TRUE

\* No callback of the event loop is running: _handle_data is a plain function
\* without a suspension point, so it runs to completion once entered.
LoopFree == todo = <<>>

\* The caller's thread is outside every API call.
CallerIdle == pc = "idle" /\ LoopFree

\* The caller makes one more API call.
Call == nCalls < MaxCalls /\ nCalls' = nCalls + 1

\* Variant: every call builds a decoder of its own instead of using self._parser.
ParserFeedFresh(data) ==
    LET r    == AddData(<<>>, data)
        base == Len(stream)
    IN /\ buffer' = r.buffer
       /\ stream' = stream \o data
       /\ emitted' = emitted \o r.readings
       /\ byteWise' = (byteWise /\ Len(data) = 1)
       /\ discarded' = discarded \cup {base + d : d \in r.drops}
       /\ frameStarts' = frameStarts \o [k \in 1..Len(r.starts) |-> base + r.starts[k]]

\* readings = self._parser.add_data(data): the decoder that __init__ created is
\* fed the chunk and keeps its residual bytes.
ParserFeed(data) ==
    LET r    == AddData(buffer, data)
        base == Len(stream) - Len(buffer)
    IN /\ buffer' = r.buffer
       /\ stream' = stream \o data
       /\ emitted' = emitted \o r.readings
       /\ byteWise' = (byteWise /\ Len(data) = 1)
       /\ discarded' = discarded \cup {base + d : d \in r.drops}
       /\ frameStarts' = frameStarts \o [k \in 1..Len(r.starts) |-> base + r.starts[k]]


\* ------------------------------------------------------------ connection
\* _connect_async: returns at once when connected; otherwise discovery may find
\* no device (DeviceNotFoundError, nothing assigned), BleakClient.connect may
\* fail (self._client = None), start_notify may fail after the address was
\* stored (self._client = None), or the link comes up with notifications on.
\* The decoder created by __init__ is kept as it is.
Connect ==
    /\ CallerIdle
    /\ Call
    /\ \E outcome \in {"ok", "not_found", "connect_fails", "notify_fails"} :
         IF IsConnected \/ outcome = "not_found"
         THEN UNCHANGED linkVars
         ELSE /\ client' = IF outcome = "ok" THEN "client" ELSE None
              /\ link' = (outcome = "ok")
              /\ notifying' = (outcome = "ok")
              /\ device_address' = IF outcome = "connect_fails"
                                   THEN device_address ELSE "addr"
              /\ sessionStart' = IF outcome = "ok" THEN Len(stream) ELSE sessionStart
              /\ sessionEmitted' = IF outcome = "ok" THEN Len(emitted) ELSE sessionEmitted
    /\ UNCHANGED <<parserVars, sinkVars, csvVars, configVars, callVars, todo,
                   registered, nChunks>>

\* disconnect up to the completion of await stop_notify: with a client whose
\* link is up the notifications are stopped, and the coroutine goes on to
\* await BleakClient.disconnect; without a client, or with a link that is
\* already down, neither await is reached.
DoDisconnect ==
    /\ notifying' = IF IsConnected THEN FALSE ELSE notifying
    /\ UNCHANGED <<client, link, device_address, sessionStart, sessionEmitted>>

\* The state _disconnect_async leaves when it ran: the link closed, then both
\* fields cleared.  Without a client disconnect did not run it.
Disconnected ==
    IF client # None
    THEN /\ client' = None
         /\ device_address' = None
         /\ link' = FALSE
         /\ notifying' = FALSE
         /\ UNCHANGED <<sessionStart, sessionEmitted>>
    ELSE UNCHANGED linkVars

Disconnect ==
    /\ CallerIdle
    /\ Call
    /\ DoDisconnect
    /\ pc' = "disconnect"
    /\ UNCHANGED <<is_collecting, returned, reading_result>>
    /\ UNCHANGED <<parserVars, sinkVars, csvVars, configVars, todo, registered, nChunks>>

\* disconnect (called directly or by __exit__) runs to its end and returns.
DisconnectReturn ==
    /\ pc \in {"disconnect", "exit"}
    /\ LoopFree
    /\ Disconnected
    /\ pc' = "idle"
    /\ UNCHANGED <<is_collecting, returned, reading_result>>
    /\ UNCHANGED <<parserVars, sinkVars, csvVars, configVars, todo, registered, nChunks>>
    /\ UNCHANGED nCalls

\* The transport loses the link: BleakClient.is_connected turns false and no
\* further notification is delivered.
LinkDrop ==
    /\ link
    /\ link' = FALSE
    /\ notifying' = FALSE
    /\ UNCHANGED <<client, device_address, sessionStart, sessionEmitted>>
    /\ UNCHANGED <<parserVars, sinkVars, csvVars, configVars, callVars, todo,
                   registered, nChunks>>
    /\ UNCHANGED nCalls

\* ------------------------------------------------------------- the sinks
\* The row _log_to_csv writes for a reading (without the timestamp column).
Row(r) ==
    << IF r.spo2 = Absent THEN "" ELSE ToString(r.spo2),
       IF r.pulse_rate = Absent THEN "" ELSE ToString(r.pulse_rate),
       ToString(r.pleth),
       ToString(r.signal_strength),
       r.status,
       IF r.pulse_beep THEN "True" ELSE "False" >>

Header == <<"spo2", "pulse_rate", "pleth", "signal_strength", "status", "pulse_beep">>

\* The line _log_to_console prints for a reading (without the timestamp).
ConsoleLine(r) ==
    << IF r.spo2 = Absent THEN "SpO2: ---" ELSE "SpO2: " \o ToString(r.spo2) \o "%",
       IF r.pulse_rate = Absent THEN "Pulse: --- BPM"
                              ELSE "Pulse: " \o ToString(r.pulse_rate) \o " BPM",
       "Pleth: " \o ToString(r.pleth),
       "Signal: " \o ToString(r.signal_strength) \o "/8",
       IF r.status # "reading" THEN r.status ELSE "",
       IF r.pulse_beep THEN "beep" ELSE "" >>

\* csv.writer.writerow puts the row into the file object's write buffer;
\* flush (and close) moves the buffer to the file.
WriteRow(fs, row) == [fs EXCEPT !.pending = Append(@, row)]
Flush(fs) == [disk |-> fs.disk \o fs.pending, pending |-> <<>>]

\* _log_to_csv
LogToCsv(fs, r) == IF csv_writer # None THEN Flush(WriteRow(fs, Row(r))) ELSE fs

\* Variant: a reading whose signal strength equals the minimum is skipped too.
AcceptsAbove(r) ==
    min_signal_strength = NoFilter \/ r.signal_strength > min_signal_strength

\* The filter of _handle_data: a reading below the minimum is skipped.
Accepts(r) ==
    min_signal_strength = NoFilter \/ r.signal_strength >= min_signal_strength

\* Variant: insert(0, reading) instead of append.
CollectFront(list, r) == <<r>> \o list

\* self._collected_readings.append(reading)
Collect(list, r) == Append(list, r)

\* ------------------------------------------------------------ _handle_data
\* Entry of _handle_data for one notification chunk: the chunk is fed to the
\* decoder and the for loop starts over the readings it returned.
HandleData ==
    /\ notifying /\ link
    /\ LoopFree
    /\ nChunks < MaxChunks
    /\ \E data \in DeviceChunks :
         /\ ParserFeed(data)
         /\ todo' = AddData(buffer, data).readings
    /\ nChunks' = nChunks + 1
    /\ UNCHANGED <<linkVars, sinkVars, csvVars, configVars, callVars, registered>>
    /\ UNCHANGED nCalls

\* One iteration of the for loop of _handle_data: filter, latest-value cache,
\* collection, streaming callback, console, CSV.  The callback is the caller's
\* code and may raise; the exception leaves _handle_data, so the rest of the
\* iteration and the remaining readings of the chunk are not visited.
HandleReading ==
    /\ todo # <<>>
    /\ LET r == Head(todo) IN
         IF ~Accepts(r)
         THEN /\ todo' = Tail(todo)
              /\ UNCHANGED sinkVars
         ELSE \E raises \in (IF streaming_callback # None THEN BOOLEAN ELSE {FALSE}) :
              /\ latest_reading' = <<r>>
              /\ accepted' = Append(accepted, r)
              /\ collected_readings' = IF is_collecting
                                       THEN Collect(collected_readings, r)
                                       ELSE collected_readings
              /\ windowAccepted' = IF pc = "get_readings"
                                   THEN Append(windowAccepted, r) ELSE windowAccepted
              /\ logExpected' = IF csv_file # None
                                THEN Append(logExpected, r) ELSE logExpected
              /\ cbLog' = IF streaming_callback # None
                          THEN Append(cbLog, <<streaming_callback, r>>) ELSE cbLog
              /\ IF raises
                 THEN /\ todo' = <<>>
                      /\ UNCHANGED <<consoleOut, fileState>>
                 ELSE /\ todo' = Tail(todo)
                      /\ consoleOut' = IF console_logging
                                       THEN Append(consoleOut, ConsoleLine(r))
                                       ELSE consoleOut
                      /\ fileState' = LogToCsv(fileState, r)
    /\ UNCHANGED <<parserVars, linkVars, csvVars, configVars, callVars, registered, nChunks>>
    /\ UNCHANGED nCalls

\* ---------------------------------------------------------------- streaming
StartStreaming ==
    /\ CallerIdle
    /\ Call
    /\ IsConnected
    /\ \E cb \in Callbacks : streaming_callback' = cb /\ registered' = cb
    /\ UNCHANGED <<console_logging, min_signal_strength>>
    /\ UNCHANGED <<parserVars, linkVars, sinkVars, csvVars, callVars, todo, nChunks>>

\* Variant: stop_streaming leaves the callback in place.
DoStopStreamingKeep == UNCHANGED streaming_callback

\* stop_streaming
DoStopStreaming == streaming_callback' = None

StopStreaming ==
    /\ CallerIdle
    /\ Call
    /\ DoStopStreaming
    /\ registered' = None
    /\ UNCHANGED <<console_logging, min_signal_strength>>
    /\ UNCHANGED <<parserVars, linkVars, sinkVars, csvVars, callVars, todo, nChunks>>

\* --------------------------------------------------------------- get_reading
\* get_reading: with a timeout that is not positive the loop body never runs;
\* otherwise the first test of _latest_reading happens before any sleep.
GetReading ==
    /\ CallerIdle
    /\ Call
    /\ IsConnected
    /\ \E positive \in BOOLEAN :
         IF ~positive
         THEN /\ reading_result' = [kind |-> "NoDataError", value |-> <<>>]
              /\ pc' = pc
         ELSE IF latest_reading # <<>>
         THEN /\ reading_result' = [kind |-> "reading", value |-> latest_reading]
              /\ pc' = pc
         ELSE /\ reading_result' = [kind |-> "none", value |-> <<>>]
              /\ pc' = "get_reading"
    /\ UNCHANGED <<is_collecting, returned>>
    /\ UNCHANGED <<parserVars, linkVars, sinkVars, csvVars, configVars, todo,
                   registered, nChunks>>

\* _get_reading_async after a sleep: the time test comes first, then the test
\* of _latest_reading; with neither it sleeps again.
GetReadingWake ==
    /\ pc = "get_reading"
    /\ LoopFree
    /\ \E expired \in BOOLEAN :
         IF expired
         THEN reading_result' = [kind |-> "NoDataError", value |-> <<>>]
         ELSE /\ latest_reading # <<>>
              /\ reading_result' = [kind |-> "reading", value |-> latest_reading]
    /\ pc' = "idle"
    /\ UNCHANGED <<is_collecting, returned>>
    /\ UNCHANGED <<parserVars, linkVars, sinkVars, csvVars, configVars, todo,
                   registered, nChunks>>
    /\ UNCHANGED nCalls

\* -------------------------------------------------------------- get_readings
\* Variant: the collection of the previous call is not replaced.
GetReadingsBeginNoReset ==
    /\ CallerIdle
    /\ Call
    /\ IsConnected
    /\ is_collecting' = TRUE
    /\ windowAccepted' = <<>>
    /\ pc' = "get_readings"
    /\ UNCHANGED <<returned, reading_result, collected_readings>>
    /\ UNCHANGED <<latest_reading, fileState, consoleOut, cbLog, accepted, logExpected>>
    /\ UNCHANGED <<parserVars, linkVars, csvVars, configVars, todo, registered, nChunks>>

\* get_readings up to the await: the collection is replaced by an empty list
\* and collecting is switched on.
GetReadingsBegin ==
    /\ CallerIdle
    /\ Call
    /\ IsConnected
    /\ collected_readings' = <<>>
    /\ is_collecting' = TRUE
    /\ windowAccepted' = <<>>
    /\ pc' = "get_readings"
    /\ UNCHANGED <<returned, reading_result>>
    /\ UNCHANGED <<latest_reading, fileState, consoleOut, cbLog, accepted, logExpected>>
    /\ UNCHANGED <<parserVars, linkVars, csvVars, configVars, todo, registered, nChunks>>

\* get_readings after the sleep: collecting is switched off and a copy of the
\* collection is returned.
GetReadingsEnd ==
    /\ pc = "get_readings"
    /\ LoopFree
    /\ is_collecting' = FALSE
    /\ returned' = collected_readings
    /\ pc' = "idle"
    /\ UNCHANGED reading_result
    /\ UNCHANGED <<parserVars, linkVars, sinkVars, csvVars, configVars, todo,
                   registered, nChunks>>
    /\ UNCHANGED nCalls

\* ------------------------------------------------------------------ logging
\* start_logging: the file is opened for writing (truncated), the header row
\* is written and flushed.
StartLogging ==
    /\ CallerIdle
    /\ Call
    /\ \E fn \in Filenames : csv_filename' = fn
    /\ csv_file' = "open"
    /\ csv_writer' = "writer"
    /\ fileState' = Flush(WriteRow([disk |-> <<>>, pending |-> <<>>], Header))
    /\ logExpected' = <<>>
    /\ UNCHANGED <<latest_reading, collected_readings, consoleOut, cbLog, accepted,
                   windowAccepted>>
    /\ UNCHANGED <<parserVars, linkVars, configVars, callVars, todo, registered, nChunks>>

\* Variant: the filename is kept after the file was closed.
DoStopLoggingKeepName ==
    /\ IF csv_file # None
       THEN /\ fileState' = Flush(fileState)
            /\ csv_file' = None
            /\ csv_writer' = None
       ELSE UNCHANGED <<fileState, csv_file, csv_writer>>
    /\ UNCHANGED csv_filename

\* stop_logging: close (which flushes) when a file is open; the filename is
\* cleared either way.
DoStopLogging ==
    /\ IF csv_file # None
       THEN /\ fileState' = Flush(fileState)
            /\ csv_file' = None
            /\ csv_writer' = None
       ELSE UNCHANGED <<fileState, csv_file, csv_writer>>
    /\ csv_filename' = None

StopLogging ==
    /\ CallerIdle
    /\ Call
    /\ DoStopLogging
    /\ UNCHANGED <<latest_reading, collected_readings, consoleOut, cbLog, accepted,
                   logExpected, windowAccepted>>
    /\ UNCHANGED <<parserVars, linkVars, configVars, callVars, todo, registered, nChunks>>

LogToConsole ==
    /\ CallerIdle
    /\ Call
    /\ \E enabled \in BOOLEAN : console_logging' = enabled
    /\ UNCHANGED <<streaming_callback, min_signal_strength>>
    /\ UNCHANGED <<parserVars, linkVars, sinkVars, csvVars, callVars, todo,
                   registered, nChunks>>

SetFilter ==
    /\ CallerIdle
    /\ Call
    /\ \E m \in FilterValues : min_signal_strength' = m
    /\ UNCHANGED <<streaming_callback, console_logging>>
    /\ UNCHANGED <<parserVars, linkVars, sinkVars, csvVars, callVars, todo,
                   registered, nChunks>>

\* __exit__: stop_streaming, stop_logging, then disconnect, which DisconnectReturn
\* completes.
Exit ==
    /\ CallerIdle
    /\ Call
    /\ DoStopStreaming
    /\ registered' = None
    /\ DoStopLogging
    /\ DoDisconnect
    /\ pc' = "exit"
    /\ UNCHANGED <<is_collecting, returned, reading_result>>
    /\ UNCHANGED <<console_logging, min_signal_strength>>
    /\ UNCHANGED <<latest_reading, collected_readings, consoleOut, cbLog, accepted,
                   logExpected, windowAccepted>>
    /\ UNCHANGED <<parserVars, todo, nChunks>>

Next ==
    \/ Connect
    \/ Disconnect
    \/ DisconnectReturn
    \/ LinkDrop
    \/ HandleData
    \/ HandleReading
    \/ StartStreaming
    \/ StopStreaming
    \/ GetReading
    \/ GetReadingWake
    \/ GetReadingsBegin
    \/ GetReadingsEnd
    \/ StartLogging
    \/ StopLogging
    \/ LogToConsole
    \/ SetFilter
    \/ Exit

Spec == Init /\ [][Next]_vars


\* ------------------------------------------------- decoder specification
\* A decoder fed directly, chunk by chunk: every chunk over WireBytes, of every
\* length (the empty chunk included) that keeps the stream within MaxStream.
Chunks(n) == UNION { [1..k -> WireBytes] : k \in 0..n }

Feed ==
    /\ \E chunk \in Chunks(MaxStream - Len(stream)) : ParserFeed(chunk)
    /\ UNCHANGED <<linkVars, sinkVars, csvVars, configVars, callVars, todo, registered,
                   nChunks, nCalls>>

SpecDecoder == Init /\ [][Feed]_vars

\* The whole stream fed to a fresh decoder in a single call.
OneShot(s) == AddData(<<>>, s)

\* The valid frames of a stream: the offsets i at which a frame-length window
\* has the sync marker on its first byte and on no other byte.
ValidWindows(s) == { i \in 0..(Len(s) - FRAME_LEN) : ValidFrameAt(s, i) }

\* The stream is a concatenation of valid frames (the last one possibly
\* incomplete): the marker is set exactly on the first byte of each frame.
Aligned(s) == \A i \in 1..Len(s) : SyncSet(s[i]) <=> (i % FRAME_LEN = 1)

\* C1 (chunking invariance): however the bytes fed so far were split into
\* chunks, the Readings emitted over all feed calls, the frames they were
\* decoded from and the residual buffer are those of feeding the same bytes to
\* a fresh decoder in a single call.
C1_ChunkingInvariance ==
    LET o == OneShot(stream)
    IN /\ emitted = o.readings
       /\ frameStarts = o.starts
       /\ buffer = o.buffer

\* Two frames were decoded from a stream fed one byte per call, with bytes
\* discarded on the way and a residue left in the buffer.
C1_Witness ==
    /\ byteWise
    /\ Len(emitted) = 2
    /\ discarded # {}
    /\ buffer # <<>>

\* The Readings a feed call must return when it takes the stream from length
\* n0 to the stream s: those of the frames of s whose last byte lies beyond n0.
CompletedBy(s, n0) ==
    LET o   == OneShot(s)
        new == { k \in 1..Len(o.starts) : o.starts[k] + FRAME_LEN - 1 > n0 }
        n   == Len(o.starts)
    IN [ readings |-> SubSeq(o.readings, n - Cardinality(new) + 1, n),
         starts   |-> SubSeq(o.starts, n - Cardinality(new) + 1, n) ]

\* C2 (bounded latency): every feed call returns exactly the Readings of the
\* frames whose last byte it delivered, neither earlier nor later; a valid
\* frame fed one byte per call yields nothing on the first four calls and its
\* Reading on the fifth.
C2_BoundedLatency ==
    /\ [][ LET c == CompletedBy(stream', Len(stream))
           IN /\ emitted' = emitted \o c.readings
              /\ frameStarts' = frameStarts \o c.starts ]_vars
    /\ [](byteWise /\ Len(stream) <= FRAME_LEN /\ Aligned(stream)
            => emitted = IF Len(stream) = FRAME_LEN THEN <<Decode(stream)>> ELSE <<>>)

\* A valid frame has been fed one byte per call and its Reading is out.
C2_Witness ==
    /\ byteWise
    /\ Len(stream) = FRAME_LEN
    /\ ValidFrameAt(stream, 0)
    /\ emitted = <<Decode(stream)>>

\* C3 (order): when the stream is a concatenation of valid frames, the k-th
\* Reading emitted is the decode of the k-th frame, one Reading per complete
\* frame, under every chunking.
C3_OrderProperty ==
    Aligned(stream) =>
        LET n == Len(stream) \div FRAME_LEN
        IN /\ emitted = [k \in 1..n |-> Decode(FrameAt(stream, FRAME_LEN * (k - 1)))]
           /\ frameStarts = [k \in 1..n |-> FRAME_LEN * (k - 1) + 1]

\* Two whole frames and the start of a third were fed in chunks of several bytes.
C3_Witness ==
    /\ Aligned(stream)
    /\ ~byteWise
    /\ Len(emitted) = 2
    /\ Len(buffer) = 2

\* C4 (resync): when the stream holds exactly one valid frame, with noise
\* before and after it that may carry sync bits, exactly one Reading is
\* emitted, it is the decode of that frame, and no byte of the frame is among
\* the discarded ones; with no valid frame nothing is emitted.
C4_ResyncProperty ==
    LET W == ValidWindows(stream)
    IN /\ W = {} => emitted = <<>>
       /\ Cardinality(W) = 1 =>
            LET p == CHOOSE i \in W : TRUE
            IN /\ emitted = <<Decode(FrameAt(stream, p))>>
               /\ frameStarts = <<p + 1>>
               /\ discarded \cap ((p + 1)..(p + FRAME_LEN)) = {}

\* One valid frame, reached after discarding leading noise that carries a sync
\* bit, and followed by noise that carries one too.
C4_Witness ==
    LET W == ValidWindows(stream)
    IN /\ Cardinality(W) = 1
       /\ LET p == CHOOSE i \in W : TRUE
          IN /\ p >= 2
             /\ \E i \in 1..p : SyncSet(stream[i])
             /\ \E i \in (p + FRAME_LEN + 1)..Len(stream) : SyncSet(stream[i])
             /\ Len(emitted) = 1
             /\ Cardinality(discarded) >= p

\* C5 (buffer bound): after every feed call the buffer holds fewer bytes than
\* one frame, they are the tail of the stream that was neither decoded nor
\* discarded, and a run shorter than a frame without any sync bit stays in the
\* buffer as it is.
C5_BufferBound ==
    /\ Len(buffer) < FRAME_LEN
    /\ buffer = SubSeq(stream, Len(stream) - Len(buffer) + 1, Len(stream))
    /\ Len(stream) - Len(buffer) = FRAME_LEN * Len(emitted) + Cardinality(discarded)
    /\ (Len(stream) < FRAME_LEN /\ \A i \in 1..Len(stream) : ~SyncSet(stream[i]))
          => emitted = <<>> /\ buffer = stream

\* The buffer is as full as it gets, after frames were decoded and noise discarded.
C5_Witness ==
    /\ Len(buffer) = FRAME_LEN - 1
    /\ emitted # <<>>
    /\ discarded # {}

\* ------------------------------------------------------ device properties
\* a is an order-preserving subsequence of b.
RECURSIVE IsSubseq(_, _)
IsSubseq(a, b) ==
    IF a = <<>> THEN TRUE
    ELSE IF b = <<>> THEN FALSE
    ELSE IF Head(a) = Head(b) THEN IsSubseq(Tail(a), Tail(b))
    ELSE IsSubseq(a, Tail(b))

\* The bytes and the Readings of the current connection session.
SessionStream == SubSeq(stream, sessionStart + 1, Len(stream))
SessionReadings == SubSeq(emitted, sessionEmitted + 1, Len(emitted))

\* C6 (decoder state per connection session): the Readings decoded in a
\* connection session are those of a decoder that started the session with an
\* empty buffer, so no Reading is formed from bytes of two sessions.
C6_DecoderPerSession == SessionReadings = OneShot(SessionStream).readings

\* C7 (CSV log): once logging has started the file holds the header row
\* followed by one row for each reading accepted while logging was active, in
\* arrival order, and nothing is left in the write buffer.
C7_CsvRowPerReading ==
    /\ fileState.pending = <<>>
    /\ fileState.disk # <<>> =>
         fileState.disk = <<Header>> \o [k \in 1..Len(logExpected) |-> Row(logExpected[k])]

\* C8 (fan-out order): the accepted readings are an order-preserving
\* subsequence of the decoder's output; the collection list, the rows of the
\* CSV log, the callback calls and the console lines are order-preserving
\* subsequences of the accepted readings; the latest-value cache holds the last
\* accepted reading.
C8_FanOutOrder ==
    /\ IsSubseq(accepted, emitted)
    /\ IsSubseq(collected_readings, accepted)
    /\ IsSubseq(returned, accepted)
    /\ IsSubseq([k \in 1..Len(cbLog) |-> cbLog[k][2]], accepted)
    /\ IsSubseq(consoleOut, [k \in 1..Len(accepted) |-> ConsoleLine(accepted[k])])
    /\ fileState.disk # <<>> =>
         /\ Head(fileState.disk) = Header
         /\ IsSubseq(Tail(fileState.disk), [k \in 1..Len(accepted) |-> Row(accepted[k])])
    /\ latest_reading = IF accepted = <<>> THEN <<>> ELSE <<accepted[Len(accepted)]>>

\* Two different readings of one chunk went to the collection list, to the
\* callback and to the CSV log.
C8_Witness ==
    /\ Len(collected_readings) = 2
    /\ collected_readings[1] # collected_readings[2]
    /\ Len(cbLog) = 2
    /\ Len(fileState.disk) = 3
    /\ todo = <<>>

\* C9 (single writer): while one execution of _handle_data is under way no
\* other chunk is fed to the decoder, the suspended get_reading / get_readings
\* coroutine is not resumed and no API call changes the configuration; the
\* only steps of the program are the iterations of its own loop (the link may
\* drop meanwhile).  Chunks reach the decoder one after the other.
C9_SingleWriter ==
    [][ todo # <<>> =>
          /\ buffer' = buffer
          /\ stream' = stream
          /\ nChunks' = nChunks
          /\ callVars' = callVars
          /\ configVars' = configVars
          /\ csvVars' = csvVars
          /\ todo' \in {todo, Tail(todo), <<>>} ]_vars

\* _handle_data is in the middle of a chunk with two readings while
\* get_readings is suspended in its sleep.
C9_Witness ==
    /\ pc = "get_readings"
    /\ Len(todo) = 1
    /\ Len(collected_readings) = 1

\* C10 (get_readings): while the call is suspended the collection holds the
\* readings accepted since the call began, in arrival order; when it has
\* returned, collecting is off and the returned list holds the readings
\* accepted inside its window and nothing else; the returned list changes only
\* when a get_readings call returns.
C10_GetReadingsWindow ==
    /\ [](pc = "get_readings" => is_collecting /\ collected_readings = windowAccepted)
    /\ [](pc # "get_readings" => ~is_collecting /\ returned = windowAccepted)
    /\ [][returned' # returned => pc = "get_readings" /\ pc' = "idle"]_vars

\* A call has returned a reading while other accepted readings, arrived outside
\* its window, are not in the list.
C10_Witness ==
    /\ pc = "idle"
    /\ returned # <<>>
    /\ Len(accepted) > Len(returned)


\* --------------------------------------------------------------- get_reading
\* A get_reading call returns without having been suspended: no notification
\* was handled between its entry and its return.
GetReadingReturnsAtOnce ==
    pc = "idle" /\ pc' = "idle" /\ reading_result' # reading_result

\* A get_reading call returns after having been suspended in its polling loop.
GetReadingReturnsLater == pc = "get_reading" /\ pc' = "idle"

\* C11 (get_reading): a call raises NoDataError exactly when no reading was
\* received within the window of that call, and otherwise returns the latest
\* accepted reading.  A call that returns without a suspension received
\* nothing, so it raises; a call that was suspended started with an empty
\* cache, so it received a reading exactly when the cache is filled.
C11_NoDataIffNothingReceived ==
    /\ [][GetReadingReturnsAtOnce => reading_result'.kind = "NoDataError"]_vars
    /\ [][GetReadingReturnsLater =>
            reading_result' = IF latest_reading = <<>>
                              THEN [kind |-> "NoDataError", value |-> <<>>]
                              ELSE [kind |-> "reading", value |-> latest_reading]]_vars


\* ----------------------------------------------------------------- streaming
\* C12 (streaming delivery): the one registered callback is the callback of the
\* latest start_streaming that no stop_streaming followed; while a callback is
\* registered it is called exactly once with each newly accepted reading, in
\* the order of acceptance, and no callback is called otherwise.
C12_StreamingDelivery ==
    /\ [](streaming_callback = registered)
    /\ [][cbLog' = IF accepted' # accepted /\ registered # None
                   THEN Append(cbLog, <<registered, accepted'[Len(accepted')]>>)
                   ELSE cbLog]_vars

\* Readings went to cb1, a second start_streaming replaced it by cb2, which
\* received the later readings, and stop_streaming has cleared the callback.
C12_Witness ==
    /\ Len(cbLog) >= 3
    /\ cbLog[1][1] = "cb1"
    /\ cbLog[Len(cbLog)][1] = "cb2"
    /\ registered = None
    /\ streaming_callback = None
    /\ Len(accepted) = Len(cbLog)


\* -------------------------------------------------------------------- filter
\* C13 (signal-strength filter): in every iteration of the loop of
\* _handle_data, a reading below a set minimum (0 included) changes no sink
\* (latest-value cache, collection, callback calls, console, CSV file) and the
\* loop goes on with the next reading of the chunk; a reading at or above the
\* minimum, and every reading when the minimum is None, is accepted.
C13_SignalFilter ==
    [][todo # <<>> /\ todo' # todo =>
         LET r == Head(todo) IN
           IF min_signal_strength # NoFilter /\ r.signal_strength < min_signal_strength
           THEN /\ UNCHANGED <<latest_reading, collected_readings, cbLog, consoleOut,
                               fileState, accepted>>
                /\ todo' = Tail(todo)
           ELSE /\ latest_reading' = <<r>>
                /\ accepted' = Append(accepted, r)]_vars

\* With the minimum at 8, the first reading of a chunk (signal strength 2) was
\* rejected and the loop went on to accept the second (signal strength 8).
C13_Witness ==
    /\ min_signal_strength = 8
    /\ todo = <<>>
    /\ Len(emitted) = 2
    /\ emitted[1].signal_strength = 2
    /\ emitted[2].signal_strength = 8
    /\ accepted = <<emitted[2]>>
    /\ latest_reading = <<emitted[2]>>


\* ------------------------------------------------- malformed wire data
\* Total number of bytes the transport delivers in the wire specification.
MaxWire == 6

\* Byte values of the wire specification: the sync byte 0x81, and continuation
\* bytes that are legal in every field (0x08) or illegal in some: 0x7f (the
\* sentinel; as byte 2 an undefined status code with signal bits 15), 0x78 (as
\* spo2 above 100; as byte 2 an undefined status code) and 0x0f (as byte 2 a
\* defined status code with signal bits 15).
FaultyBytes == {129, 127, 120, 15, 8}

WireChunks(n) == UNION { [1..k -> FaultyBytes] : k \in 0..n }

\* A BerryOximeter after connect(), log_to_console(True) and
\* start_logging("log.csv"), with no streaming callback and no filter.
InitWire ==
    /\ buffer = <<>>
    /\ client = "client"
    /\ link = TRUE
    /\ notifying = TRUE
    /\ device_address = "addr"
    /\ streaming_callback = None
    /\ latest_reading = <<>>
    /\ collected_readings = <<>>
    /\ is_collecting = FALSE
    /\ csv_file = "open"
    /\ csv_writer = "writer"
    /\ csv_filename = "log.csv"
    /\ console_logging = TRUE
    /\ min_signal_strength = NoFilter
    /\ pc = "idle"
    /\ todo = <<>>
    /\ fileState = Flush(WriteRow([disk |-> <<>>, pending |-> <<>>], Header))
    /\ consoleOut = <<>>
    /\ cbLog = <<>>
    /\ returned = <<>>
    /\ reading_result = [kind |-> "none", value |-> <<>>]
    /\ stream = <<>>
    /\ emitted = <<>>
    /\ byteWise = TRUE
    /\ discarded = {}
    /\ frameStarts = <<>>
    /\ sessionStart = 0
    /\ sessionEmitted = 0
    /\ accepted = <<>>
    /\ logExpected = <<>>
    /\ windowAccepted = <<>>
    /\ registered = None
    /\ nChunks = 0
    /\ nCalls = 3

\* Entry of _handle_data for a notification chunk of arbitrary content.
HandleWireData ==
    /\ notifying /\ link
    /\ LoopFree
    /\ \E data \in WireChunks(MaxWire - Len(stream)) :
         /\ ParserFeed(data)
         /\ todo' = AddData(buffer, data).readings
    /\ UNCHANGED <<linkVars, sinkVars, csvVars, configVars, callVars, registered,
                   nChunks, nCalls>>

SpecWire == InitWire /\ [][HandleWireData \/ HandleReading]_vars

StatusNames == {"reading", "no_sensor", "sensor_off", "searching", "low_perfusion"}

\* A Reading whose every field is a legal value of the data model.
WellFormed(r) ==
    /\ r.signal_strength \in 0..MAX_SIGNAL
    /\ r.status \in StatusNames
    /\ r.spo2 \in {Absent} \cup 0..MAX_SPO2
    /\ r.pulse_rate \in {Absent} \cup 0..(INVALID_SENTINEL - 1)
    /\ r.pleth \in 0..(SYNC_BIT - 1)
    /\ r.pulse_beep \in BOOLEAN

StreamingAndLoggingStopped ==
    /\ streaming_callback = None
    /\ csv_file = None
    /\ csv_writer = None
    /\ csv_filename = None
    /\ fileState.pending = <<>>

\* C15 (context-manager exit): while __exit__ is in its last step, disconnect,
\* streaming and logging are already stopped; and when __exit__ returns, the
\* callback is cleared, the file is closed with the three CSV fields None,
\* _client is None and is_connected is false.
C15_ExitCleansUp ==
    /\ [](pc = "exit" => StreamingAndLoggingStopped)
    /\ [][pc = "exit" /\ pc' = "idle" =>
            /\ StreamingAndLoggingStopped'
            /\ client' = None
            /\ ~IsConnected'
            /\ ~notifying']_vars

\* __exit__ is under way after a session that streamed and logged readings:
\* the callback and the file are released, the rows are on disk, and the
\* disconnect of the client, whose link is still up, is the step that remains.
C15_Witness ==
    /\ pc = "exit"
    /\ client # None
    /\ link
    /\ cbLog # <<>>
    /\ Len(fileState.disk) >= 2
    /\ StreamingAndLoggingStopped


\* ---------------------------------------------------------------- disconnect
\* disconnect, called directly or as the last step of __exit__, returns.
DisconnectReturns == pc \in {"disconnect", "exit"} /\ pc' = "idle"

\* C16 (disconnect): when disconnect returns, _client and _device_address are
\* None and is_connected is false, whether or not there was a client.
C16_DisconnectClearsAll ==
    [][DisconnectReturns =>
         client' = None /\ device_address' = None /\ ~IsConnected']_vars

\* What disconnect does guarantee: without a client it changes no field of
\* the connection; with a client whose link is up, notifications are already
\* stopped while the link is being closed; when disconnect returns _client is
\* None and is_connected is false, and _device_address is None if there was a
\* client; a chunk reaches _handle_data only on a connected client with
\* notifications on, so none does between the return and the next connect.
DisconnectGuarantee ==
    /\ [][client = None /\ pc' \in {"disconnect", "exit"} => UNCHANGED linkVars]_vars
    /\ [][client = None /\ DisconnectReturns => UNCHANGED linkVars]_vars
    /\ [](pc \in {"disconnect", "exit"} => ~notifying)
    /\ [][DisconnectReturns =>
            /\ client' = None
            /\ ~IsConnected'
            /\ ~notifying'
            /\ client # None => device_address' = None]_vars
    /\ [](notifying => IsConnected)
    /\ [][stream' # stream => IsConnected /\ notifying]_vars

\* disconnect is under way on a client that has received notifications: they
\* are stopped and the link, still up, is closed next.
DisconnectUnderWay ==
    /\ pc = "disconnect"
    /\ client # None
    /\ link
    /\ ~notifying
    /\ stream # <<>>


\* ------------------------------------------------------------ failing sinks
\* C17 (no accepted reading lost): every iteration of the loop of _handle_data
\* goes on to the next reading of the chunk, and a reading that passes the
\* filter reaches every sink active at that moment (latest-value cache,
\* collection, callback, console, CSV file) whether or not the callback
\* raises; so no reading enters the cache or the collection without its row
\* entering an active CSV log.
C17_NoReadingLost ==
    [][todo # <<>> /\ todo' # todo =>
         LET r == Head(todo) IN
           /\ todo' = Tail(todo)
           /\ Accepts(r) =>
                /\ latest_reading' = <<r>>
                /\ is_collecting => collected_readings' = Append(collected_readings, r)
                /\ streaming_callback # None =>
                     cbLog' = Append(cbLog, <<streaming_callback, r>>)
                /\ console_logging => consoleOut' = Append(consoleOut, ConsoleLine(r))
                /\ csv_writer # None =>
                     fileState'.disk = Append(fileState.disk, Row(r))]_vars

====
